---- MODULE Spec2Model ----
(***************************************************************************)
(* A model of src/desktop.py, the ABOLFAZL-DESKTOP shell: a GTK window     *)
(* hosting a WebKit view, the JS -> host bridge (on_js_message and its     *)
(* seven handlers), the wallpaper config file, and the Wnck running-       *)
(* application tracker.                                                    *)
(*                                                                         *)
(* Everything runs on the GTK main loop.  One step of the model is one     *)
(* callback dispatched by that loop: a bridge message, a Wnck signal, an   *)
(* idle callback, or the response of the file chooser.  dialog.run() runs  *)
(* a nested main loop, so the picker handler is split at that call: the    *)
(* other callbacks are dispatched while a chooser is open.                 *)
(*                                                                         *)
(* Python strings are TLA+ strings; Python values are tagged records.      *)
(***************************************************************************)
EXTENDS Integers, Sequences, FiniteSets, TLC

(***************************************************************************)
(* Bounds of the model.                                                    *)
(***************************************************************************)
\* most windows in one snapshot returned by screen.get_windows()
MaxWindows == 2
\* most file choosers open at once (nested dialog.run() calls)
MaxDialogs == 1
\* most Wnck signals delivered in one run
MaxEvents == 2

(***************************************************************************)
(* Python values.                                                          *)
(***************************************************************************)
PyNone == [t |-> "None"]
PyStr(s) == [t |-> "str", v |-> s]
PyInt(n) == [t |-> "int", v |-> n]
PyList(xs) == [t |-> "list", v |-> xs]
\* a dict is the sequence of its <<key, value>> items, in insertion order
PyDict(items) == [t |-> "dict", v |-> items]

\* bool(v)
Truthy(v) ==
    CASE v.t = "None" -> FALSE
      [] v.t = "str"  -> Len(v.v) > 0
      [] v.t = "int"  -> v.v # 0
      [] v.t = "list" -> Len(v.v) > 0
      [] v.t = "dict" -> Len(v.v) > 0

\* hash(v) succeeds: lists and dicts raise TypeError as dict keys
Hashable(v) == v.t \notin {"list", "dict"}

\* d.get(k) on a dict d
DictGet(d, k) ==
    IF \E i \in 1..Len(d.v) : d.v[i][1] = k
    THEN d.v[CHOOSE i \in 1..Len(d.v) : d.v[i][1] = k][2]
    ELSE PyNone

\* str.lower() of one character (the ASCII letters)
LowerChar(c) ==
    CASE c = "A" -> "a" [] c = "B" -> "b" [] c = "C" -> "c" [] c = "D" -> "d"
      [] c = "E" -> "e" [] c = "F" -> "f" [] c = "G" -> "g" [] c = "H" -> "h"
      [] c = "I" -> "i" [] c = "J" -> "j" [] c = "K" -> "k" [] c = "L" -> "l"
      [] c = "M" -> "m" [] c = "N" -> "n" [] c = "O" -> "o" [] c = "P" -> "p"
      [] c = "Q" -> "q" [] c = "R" -> "r" [] c = "S" -> "s" [] c = "T" -> "t"
      [] c = "U" -> "u" [] c = "V" -> "v" [] c = "W" -> "w" [] c = "X" -> "x"
      [] c = "Y" -> "y" [] c = "Z" -> "z"
      [] OTHER -> c

RECURSIVE Lower(_)
Lower(s) ==
    IF Len(s) = 0 THEN ""
    ELSE LowerChar(SubSeq(s, 1, 1)) \o Lower(SubSeq(s, 2, Len(s)))

\* the Python test `sub in s` on two strings
Contains(sub, s) ==
    \E i \in 1..(Len(s) - Len(sub) + 1) : SubSeq(s, i, i + Len(sub) - 1) = sub

\* s.startswith(p)
StartsWith(s, p) == Len(s) >= Len(p) /\ SubSeq(s, 1, Len(p)) = p

(***************************************************************************)
(* json.dumps and json.loads.                                              *)
(***************************************************************************)
\* str(n) for the small integers the model uses
IntStr(n) ==
    CASE n = 0 -> "0" [] n = 1 -> "1" [] n = 2 -> "2" [] n = 3 -> "3"
      [] n = 4 -> "4" [] n = 5 -> "5" [] n = 6 -> "6" [] n = 7 -> "7"
      [] n = 8 -> "8" [] n = 9 -> "9"

\* json.dumps(v) with the default separators (", " and ": ").  The strings
\* of the model hold no character that json.dumps escapes.
RECURSIVE JsonDumps(_)
RECURSIVE JsonItems(_, _)
JsonItems(xs, isDict) ==
    IF Len(xs) = 0 THEN ""
    ELSE LET x == Head(xs)
             one == IF isDict
                    THEN "\"" \o x[1] \o "\": " \o JsonDumps(x[2])
                    ELSE JsonDumps(x)
         IN IF Len(xs) = 1 THEN one
            ELSE one \o ", " \o JsonItems(Tail(xs), isDict)

JsonDumps(v) ==
    CASE v.t = "None" -> "null"
      [] v.t = "str"  -> "\"" \o v.v \o "\""
      [] v.t = "int"  -> IntStr(v.v)
      [] v.t = "list" -> "[" \o JsonItems(v.v, FALSE) \o "]"
      [] v.t = "dict" -> "{" \o JsonItems(v.v, TRUE) \o "}"

(***************************************************************************)
(* The values the model draws its inputs from.                             *)
(***************************************************************************)
\* the keys of the handlers dict of on_js_message
HandlerNames ==
    {"get_dock_apps", "get_power_icons", "open_bg_picker",
     "get_saved_background", "launch_app", "focus_app", "power_command"}

\* the commands dict of handle_power_command
PowerCommands ==
    [shutdown |-> <<"systemctl", "poweroff">>,
     restart  |-> <<"systemctl", "reboot">>,
     sleep    |-> <<"systemctl", "suspend">>]

\* the icon names of send_power_icons, in the order of the dict literal
PowerIconNames ==
    << <<"shutdown", "system-shutdown">>,
       <<"restart", "view-refresh">>,
       <<"sleep", "system-suspend">> >>

\* file names dialog.get_filename() returns
Paths == {"/a.png", "/b.png"}

\* a JSON object {"wallpaper": v}, as handle_open_bg_picker writes it
WallpaperConfig(v) == PyDict(<< <<"wallpaper", v>> >>)

\* an entry of dock.json
DockEntry(name, icon, exec) ==
    PyDict(<< <<"name", PyStr(name)>>, <<"icon", PyStr(icon)>>,
              <<"exec", PyStr(exec)>> >>)

DockValues ==
    {PyList(<<>>),
     PyList(<<DockEntry("Files", "folder", "nautilus")>>),
     PyList(<<DockEntry("Files", "folder", "nautilus"),
              DockEntry("Web", "firefox", "firefox")>>)}

\* a bridge message {action: a} and {action: a, command: c}
Msg(a) == PyDict(<< <<"action", a>> >>)
MsgCmd(a, c) == PyDict(<< <<"action", a>>, <<"command", c>> >>)

LaunchCommands == {PyStr(""), PyStr("xterm"), PyInt(5)}
FocusCommands == {PyStr(""), PyStr("FIRE"), PyStr("fox"), PyStr("term"), PyInt(5)}
PowerArgs ==
    {PyStr("shutdown"), PyStr("restart"), PyStr("sleep"), PyStr("Shutdown"),
     PyStr("hibernate"), PyInt(5), PyList(<<>>)}

\* the decoded payloads window.webkit.messageHandlers.bridge.postMessage
\* delivers: the seven actions, unregistered and missing actions, actions
\* that are no strings, and JSON that is no object
MessageValues ==
    {Msg(PyStr(a)) : a \in HandlerNames}
    \cup {MsgCmd(PyStr("launch_app"), c) : c \in LaunchCommands}
    \cup {MsgCmd(PyStr("focus_app"), c) : c \in FocusCommands}
    \cup {MsgCmd(PyStr("power_command"), c) : c \in PowerArgs}
    \cup {Msg(PyStr("reboot")), Msg(PyStr("")),
          MsgCmd(PyStr("shutdown"), PyStr("shutdown")),
          MsgCmd(PyStr("Launch_App"), PyStr("xterm")),
          Msg(PyNone), Msg(PyInt(0)), Msg(PyList(<<>>)), PyDict(<<>>),
          PyDict(<< <<"command", PyStr("xterm")>> >>)}
    \cup {PyList(<<>>), PyNone, PyStr("get_dock_apps"), PyInt(5)}

\* every value json.loads returns in the model
JsonValues ==
    MessageValues \cup DockValues
    \cup {WallpaperConfig(PyStr(p)) : p \in Paths}
    \cup {WallpaperConfig(PyStr("")), WallpaperConfig(PyNone), PyDict(<<>>)}

\* json.dumps of each value, and the value of each such text
JsonText == [v \in JsonValues |-> JsonDumps(v)]
JsonLoads(text) ==
    IF \E v \in JsonValues : JsonText[v] = text
    THEN [ok |-> TRUE, v |-> CHOOSE v \in JsonValues : JsonText[v] = text]
    ELSE [ok |-> FALSE, v |-> PyNone]

\* texts that are no JSON
Malformed == {"", "{\"action\": "}

\* the payloads result.get_js_value().to_string() yields
Payloads == {JsonText[v] : v \in MessageValues} \cup Malformed

(***************************************************************************)
(* Files: config.json and dock.json.                                       *)
(***************************************************************************)
\* no such path
NoFile == [exists |-> FALSE, readable |-> FALSE, text |-> ""]
\* the path exists and cannot be opened (a directory, no permission)
Unreadable == [exists |-> TRUE, readable |-> FALSE, text |-> ""]
TextFile(s) == [exists |-> TRUE, readable |-> TRUE, text |-> s]

\* config.json as the program may find it at start
ConfigFiles ==
    {NoFile, Unreadable, TextFile(""), TextFile("{}"),
     TextFile(JsonDumps(WallpaperConfig(PyStr(""))))}
    \cup {TextFile(JsonDumps(WallpaperConfig(PyStr(p)))) : p \in Paths}

\* dock.json as a request may find it (the program never writes it)
DockFiles ==
    {NoFile, Unreadable, TextFile("[{\"name\": "), TextFile("{}")}
    \cup {TextFile(JsonDumps(v)) : v \in DockValues}

\* how Path.write_text can end: the text is on disk; open() failed and the
\* file is as before; open() truncated the file and the write or the close
\* failed (disk full), leaving it empty
WriteOutcomes(file) ==
    IF file.exists /\ ~file.readable THEN {"open_failed"}
    ELSE {"ok", "open_failed", "flush_failed"}

WriteText(file, text, outcome) ==
    CASE outcome = "ok" -> TextFile(text)
      [] outcome = "open_failed" -> file
      [] outcome = "flush_failed" -> TextFile("")

(***************************************************************************)
(* Windows, as Wnck reports them.  The window list belongs to the X        *)
(* server: every screen.get_windows() call returns the snapshot of its     *)
(* moment.                                                                 *)
(***************************************************************************)
WindowKinds ==
    {[cls |-> PyStr("Firefox"), type |-> "NORMAL"],
     [cls |-> PyStr("firefox"), type |-> "DOCK"],
     [cls |-> PyNone, type |-> "NORMAL"]}

Snapshots == UNION {[1..n -> WindowKinds] : n \in 0..MaxWindows}

\* (w.get_class_group_name() or "").lower()
ClassName(w) == Lower(IF Truthy(w.cls) THEN w.cls.v ELSE "")

\* the set comprehension of update_running_apps
Running(ws) ==
    {ClassName(ws[i]) : i \in {j \in 1..Len(ws) : ws[j].type = "NORMAL"}}

\* list(running): a set iterates in an order the hash seed decides
Orders(S) ==
    {o \in [1..Cardinality(S) -> S] : {o[i] : i \in 1..Cardinality(S)} = S}

(***************************************************************************)
(* What a callback does, in order: the calls it makes on the toolkit, the  *)
(* operating system and the log, each with the answer it got.              *)
(***************************************************************************)
Which(found) == [e |-> "which", name |-> "systemctl", found |-> found]
\* subprocess.Popen(argv, shell=shell); ok: a process was spawned (Popen
\* raised OSError otherwise).  No call of the program waits for a process.
Popen(argv, shell, ok) == [e |-> "Popen", argv |-> argv, shell |-> shell, ok |-> ok]
Log(level, msg) == [e |-> "log", level |-> level, msg |-> msg]
\* webview.run_javascript("window.cb && cb(arg)")
RunJavascript(cb, arg) ==
    [e |-> "run_javascript", guard |-> "window." \o cb, cb |-> cb, arg |-> arg]
GetWindows(ws) == [e |-> "get_windows", ws |-> ws]
GetClass(i) == [e |-> "get_class_group_name", win |-> i]
Activate(i) == [e |-> "activate", win |-> i]
IdleAdd == [e |-> "idle_add", fn |-> "update_running_apps"]
ReadDock(file) == [e |-> "read", path |-> "dock.json", file |-> file]
WriteConfig(text, outcome) ==
    [e |-> "write_text", path |-> "config.json", text |-> text, outcome |-> outcome]
LookupIcon(name, found) == [e |-> "lookup_icon", name |-> name, found |-> found]
DialogRun == [e |-> "dialog_run"]
DialogDestroy == [e |-> "dialog_destroy"]

\* how a call ends: it returns, or an exception leaves it
Return(fx) == [fx |-> fx, raised |-> FALSE, opens |-> FALSE]
Raise(fx) == [fx |-> fx, raised |-> TRUE, opens |-> FALSE]
\* the call is inside dialog.run(), a nested main loop
Suspend(fx) == [fx |-> fx, raised |-> FALSE, opens |-> TRUE]

(***************************************************************************)
(* run_js_safe, src/desktop.py 175-181.  run_javascript queues the script  *)
(* for the web process and reports nothing back (its callback is None).    *)
(***************************************************************************)
run_js_safe(wv, cb, arg) == IF wv THEN <<RunJavascript(cb, arg)>> ELSE <<>>

(***************************************************************************)
(* handle_power_command, src/desktop.py 209-228.                           *)
(***************************************************************************)
\* a handler that does not look for systemctl before it spawns
handle_power_command_NoWhich(cmd, which, popen) ==
    IF ~Hashable(cmd) THEN Raise(<<>>)
    ELSE IF ~(cmd.t = "str" /\ cmd.v \in DOMAIN PowerCommands) THEN Return(<<>>)
    ELSE IF popen
         THEN Return(<<Which(which), Popen(PowerCommands[cmd.v], FALSE, TRUE)>>)
    ELSE Return(<<Which(which), Popen(PowerCommands[cmd.v], FALSE, FALSE),
                  Log("warning", "Power command failed")>>)

handle_power_command(cmd, which, popen) ==
    IF ~Hashable(cmd) THEN Raise(<<>>)
    ELSE IF ~(cmd.t = "str" /\ cmd.v \in DOMAIN PowerCommands) THEN Return(<<>>)
    ELSE IF ~which
         THEN Return(<<Which(FALSE), Log("warning", "systemctl not available")>>)
    ELSE IF popen
         THEN Return(<<Which(TRUE), Popen(PowerCommands[cmd.v], FALSE, TRUE)>>)
    ELSE Return(<<Which(TRUE), Popen(PowerCommands[cmd.v], FALSE, FALSE),
                  Log("warning", "Power command failed")>>)

(***************************************************************************)
(* get_system_icon_path and send_power_icons, src/desktop.py 230-243 and   *)
(* 344-355.  found: the icon names the theme resolves.                     *)
(***************************************************************************)
get_system_icon_path(icon_name, found) ==
    IF icon_name \in found
    THEN "file://" \o "/usr/share/icons/" \o icon_name \o ".png"
    ELSE ""

send_power_icons(wv, found) ==
    LET n == Len(PowerIconNames)
        icons == PyDict([i \in 1..n |->
                    <<PowerIconNames[i][1],
                      PyStr(get_system_icon_path(PowerIconNames[i][2], found))>>])
        lookups == [i \in 1..n |->
                    LookupIcon(PowerIconNames[i][2], PowerIconNames[i][2] \in found)]
    IN Return(lookups \o run_js_safe(wv, "receivePowerIcons", JsonDumps(icons)))

(***************************************************************************)
(* handle_launch_app, src/desktop.py 313-325.  Popen raises TypeError for  *)
(* a command that is no string, OSError where no process can be made.      *)
(***************************************************************************)
handle_launch_app(cmd, popen) ==
    IF ~Truthy(cmd) THEN Return(<<>>)
    ELSE IF cmd.t # "str" THEN Return(<<Log("debug", "Launch failed")>>)
    ELSE IF popen THEN Return(<<Popen(<<cmd.v>>, TRUE, TRUE)>>)
    ELSE Return(<<Popen(<<cmd.v>>, TRUE, FALSE), Log("debug", "Launch failed")>>)

(***************************************************************************)
(* handle_focus_app, src/desktop.py 327-339.                               *)
(***************************************************************************)
\* the for loop without its break
RECURSIVE FocusLoop_NoBreak(_, _, _)
FocusLoop_NoBreak(target, ws, i) ==
    IF i > Len(ws) THEN <<>>
    ELSE (IF Contains(target, ClassName(ws[i]))
          THEN <<GetClass(i), Activate(i)>> ELSE <<GetClass(i)>>)
         \o FocusLoop_NoBreak(target, ws, i + 1)

\* the for loop from window i on
RECURSIVE FocusLoop(_, _, _)
FocusLoop(target, ws, i) ==
    IF i > Len(ws) THEN <<>>
    ELSE IF Contains(target, ClassName(ws[i]))
         THEN <<GetClass(i), Activate(i)>>
    ELSE <<GetClass(i)>> \o FocusLoop(target, ws, i + 1)

\* handle_focus_app without the test of self.screen
handle_focus_app_NoScreenTest(cmd, scr, ws) ==
    IF ~Truthy(cmd) THEN Return(<<>>)
    ELSE IF cmd.t # "str" THEN Raise(<<>>)
    ELSE Return(<<GetWindows(ws)>> \o FocusLoop(Lower(cmd.v), ws, 1))

handle_focus_app(cmd, scr, ws) ==
    IF ~scr \/ ~Truthy(cmd) THEN Return(<<>>)
    ELSE IF cmd.t # "str" THEN Raise(<<>>)
    ELSE Return(<<GetWindows(ws)>> \o FocusLoop(Lower(cmd.v), ws, 1))

(***************************************************************************)
(* handle_get_saved_background, src/desktop.py 279-292.                    *)
(***************************************************************************)
\* str(v), as an f-string formats v
Format(v) ==
    CASE v.t = "str" -> v.v
      [] v.t = "int" -> IntStr(v.v)
      [] v.t = "None" -> "None"

\* the value of bg passed to json.dumps
SavedBackground(cfg) ==
    IF ~cfg.exists \/ ~cfg.readable THEN PyNone
    ELSE LET d == JsonLoads(cfg.text) IN
         IF ~d.ok \/ d.v.t # "dict" THEN PyNone
         ELSE LET bg == DictGet(d.v, "wallpaper") IN
              IF Truthy(bg) THEN PyStr("file://" \o Format(bg)) ELSE bg

handle_get_saved_background(wv, cfg) ==
    Return(run_js_safe(wv, "receiveSavedBackground", JsonDumps(SavedBackground(cfg))))

(***************************************************************************)
(* handle_get_dock_apps, src/desktop.py 297-308.                           *)
(***************************************************************************)
\* json.loads outside the try: a malformed dock.json raises
handle_get_dock_apps_NoExcept(wv, dock) ==
    LET d == JsonLoads(dock.text)
        failed == dock.exists /\ (~dock.readable \/ ~d.ok)
    IN IF failed THEN Raise(<<ReadDock(dock)>>)
       ELSE Return(<<ReadDock(dock)>>
                   \o run_js_safe(wv, "receiveDockData",
                          JsonDumps(IF dock.exists THEN d.v ELSE PyList(<<>>))))

handle_get_dock_apps(wv, dock) ==
    LET d == JsonLoads(dock.text)
        failed == dock.exists /\ (~dock.readable \/ ~d.ok)
        apps == IF dock.exists /\ ~failed THEN d.v ELSE PyList(<<>>)
    IN Return(<<ReadDock(dock)>>
              \o (IF failed THEN <<Log("debug", "Failed to load dock.json")>> ELSE <<>>)
              \o run_js_safe(wv, "receiveDockData", JsonDumps(apps)))

(***************************************************************************)
(* handle_open_bg_picker, src/desktop.py 248-277: up to dialog.run(), and  *)
(* from its return on.                                                     *)
(***************************************************************************)
handle_open_bg_picker == Suspend(<<DialogRun>>)

\* the config file after the response
PickerConfig(cfg, resp, path, outcome) ==
    IF resp = "OK"
    THEN WriteText(cfg, JsonDumps(WallpaperConfig(PyStr(path))), outcome)
    ELSE cfg

\* applyBackground injected outside the try: whether or not the write failed
PickerEffects_ApplyAlways(wv, resp, path, outcome) ==
    IF resp # "OK" THEN <<DialogDestroy>>
    ELSE <<WriteConfig(JsonDumps(WallpaperConfig(PyStr(path))), outcome)>>
         \o run_js_safe(wv, "applyBackground", "'file://" \o path \o "'")
         \o <<DialogDestroy>>

\* the calls after the response
PickerEffects(wv, resp, path, outcome) ==
    IF resp # "OK" THEN <<DialogDestroy>>
    ELSE <<WriteConfig(JsonDumps(WallpaperConfig(PyStr(path))), outcome)>>
         \o (IF outcome = "ok"
             THEN run_js_safe(wv, "applyBackground", "'file://" \o path \o "'")
             ELSE <<Log("warning", "Wallpaper save failed")>>)
         \o <<DialogDestroy>>

(***************************************************************************)
(* update_running_apps, src/desktop.py 120-137: the results it can have,   *)
(* one for each order list(running) can take.  again is the value it       *)
(* returns to GLib: False removes the idle source.                         *)
(***************************************************************************)
\* update_running_apps returning True: GLib keeps the idle source
update_running_apps_KeepsSource(scr, wv, ws) ==
    IF ~scr THEN {[fx |-> <<>>, again |-> TRUE]}
    ELSE {[fx |-> <<GetWindows(ws)>>
                  \o run_js_safe(wv, "updateRunningIndicators",
                         JsonDumps(PyList([i \in DOMAIN o |-> PyStr(o[i])]))),
           again |-> TRUE] : o \in Orders(Running(ws))}

update_running_apps(scr, wv, ws) ==
    IF ~scr THEN {[fx |-> <<>>, again |-> FALSE]}
    ELSE {[fx |-> <<GetWindows(ws)>>
                  \o run_js_safe(wv, "updateRunningIndicators",
                         JsonDumps(PyList([i \in DOMAIN o |-> PyStr(o[i])]))),
           again |-> FALSE] : o \in Orders(Running(ws))}

(***************************************************************************)
(* on_js_message, src/desktop.py 183-204.                                  *)
(***************************************************************************)
\* what the environment answers to the selected handler: whether systemctl
\* resolves, whether Popen can make a process, dock.json, the window list,
\* the icons of the theme
NoEnv == [which |-> FALSE, popen |-> FALSE, dock |-> NoFile, ws |-> <<>>, icons |-> {}]

IconNames == {PowerIconNames[i][2] : i \in DOMAIN PowerIconNames}

EnvsFor(sel) ==
    CASE sel = "power_command" ->
           {[NoEnv EXCEPT !.which = w, !.popen = p] : w \in BOOLEAN, p \in BOOLEAN}
      [] sel = "launch_app" -> {[NoEnv EXCEPT !.popen = p] : p \in BOOLEAN}
      [] sel = "get_dock_apps" -> {[NoEnv EXCEPT !.dock = d] : d \in DockFiles}
      [] sel = "focus_app" -> {[NoEnv EXCEPT !.ws = w] : w \in Snapshots}
      [] sel = "get_power_icons" -> {[NoEnv EXCEPT !.icons = f] : f \in SUBSET IconNames}
      [] OTHER -> {NoEnv}

\* the decoded message: data, action and command; ok is FALSE where
\* json.loads or data.get raises
Decode(payload) ==
    LET d == JsonLoads(payload) IN
    IF d.ok /\ d.v.t = "dict"
    THEN [ok |-> TRUE, action |-> DictGet(d.v, "action"),
          command |-> DictGet(d.v, "command")]
    ELSE [ok |-> FALSE, action |-> PyNone, command |-> PyNone]

\* `action in handlers`: the key of the handler the message selects, ""
\* where it selects none
Selected(payload) ==
    LET m == Decode(payload) IN
    IF m.ok /\ m.action.t = "str" /\ m.action.v \in HandlerNames
    THEN m.action.v ELSE ""

\* handlers[action]()
CallHandler(name, command, env, scr, wv, cfg) ==
    CASE name = "get_dock_apps" -> handle_get_dock_apps(wv, env.dock)
      [] name = "get_power_icons" -> send_power_icons(wv, env.icons)
      [] name = "open_bg_picker" -> handle_open_bg_picker
      [] name = "get_saved_background" -> handle_get_saved_background(wv, cfg)
      [] name = "launch_app" -> handle_launch_app(command, env.popen)
      [] name = "focus_app" -> handle_focus_app(command, scr, env.ws)
      [] name = "power_command" -> handle_power_command(command, env.which, env.popen)

\* a dispatcher that looks the action up without regard to case
Dispatch_AnyCase(payload, env, scr, wv, cfg) ==
    LET m == Decode(payload) IN
    IF ~m.ok THEN Raise(<<>>)
    ELSE IF ~Hashable(m.action) THEN Raise(<<>>)
    ELSE IF m.action.t = "str" /\ Lower(m.action.v) \in HandlerNames
         THEN CallHandler(Lower(m.action.v), m.command, env, scr, wv, cfg)
    ELSE Return(<<>>)

\* the body of the try
Dispatch(payload, env, scr, wv, cfg) ==
    LET m == Decode(payload) IN
    IF ~m.ok THEN Raise(<<>>)
    ELSE IF ~Hashable(m.action) THEN Raise(<<>>)
    ELSE IF m.action.t = "str" /\ m.action.v \in HandlerNames
         THEN CallHandler(m.action.v, m.command, env, scr, wv, cfg)
    ELSE Return(<<>>)

\* on_js_message without its try/except
on_js_message_NoExcept(payload, env, scr, wv, cfg) ==
    Dispatch(payload, env, scr, wv, cfg)

\* try: ... except Exception as e: log.debug(...)
on_js_message(payload, env, scr, wv, cfg) ==
    LET r == Dispatch(payload, env, scr, wv, cfg) IN
    IF r.raised
    THEN Return(r.fx \o <<Log("debug", "Bridge message error")>>)
    ELSE r

(***************************************************************************)
(* init_screen, src/desktop.py 101-118.                                    *)
(***************************************************************************)
Signals == <<"window-opened", "window-closed", "active-window-changed">>

\* wnck: "missing" (WNCK_AVAILABLE is False), "no_screen" (get_default()
\* returned None) or "screen"; connects: the connect calls that returned
\* before an exception left the try, Len(Signals) where none did
init_screen(wnck, connects) ==
    IF wnck # "screen" THEN [screen |-> FALSE, connected |-> {}]
    ELSE [screen |-> connects = Len(Signals),
          connected |-> {Signals[i] : i \in 1..connects}]

InitScreenResults ==
    {init_screen(w, Len(Signals)) : w \in {"missing", "no_screen"}}
    \cup {init_screen("screen", k) : k \in 0..Len(Signals)}

(***************************************************************************)
(* The state.                                                              *)
(***************************************************************************)
VARIABLES
    screen,     \* self.screen is a Wnck screen (tracking), not None (disabled)
    connected,  \* the Wnck signals a handler is connected to
    webview,    \* self.webview is a web view, not None
    config,     \* the file config.json
    dialogs,    \* the file choosers inside dialog.run()
    scheduled,  \* GLib.idle_add calls so far
    ran,        \* update_running_apps calls so far
    idle,       \* idle sources GLib holds
    fx,         \* the calls of the callback that runs, in order
    last,       \* the callback that runs, what it was given, whether an
                \* exception left it; op = "loop" between two callbacks
    saved       \* history: the path of the latest confirmed chooser whose
                \* write_text succeeded, "" while there is none

vars ==
    <<screen, connected, webview, config, dialogs, scheduled, ran, idle,
      fx, last, saved>>

\* the main loop polls: no callback runs
InLoop == [op |-> "loop", arg |-> "", escaped |-> FALSE]

\* DesktopShell.__init__, src/desktop.py 71-96, and Gtk.main()
Init ==
    /\ \E r \in InitScreenResults : screen = r.screen /\ connected = r.connected
    /\ webview \in BOOLEAN
    /\ config \in ConfigFiles
    /\ dialogs = 0
    /\ scheduled = 0
    /\ ran = 0
    /\ idle = 0
    /\ fx = <<>>
    /\ last = InLoop
    /\ saved = ""

\* the script-message-received::bridge signal.  The page that posts the
\* message lives in the web view, so there is one.
OnJsMessage ==
    /\ last = InLoop
    /\ webview
    /\ \E payload \in Payloads : \E env \in EnvsFor(Selected(payload)) :
         LET r == on_js_message(payload, env, screen, webview, config) IN
         /\ r.opens => dialogs < MaxDialogs
         /\ dialogs' = IF r.opens THEN dialogs + 1 ELSE dialogs
         /\ fx' = r.fx
         /\ last' = [op |-> "message", arg |-> payload, escaped |-> r.raised]
    /\ UNCHANGED <<screen, connected, webview, config, scheduled, ran, idle, saved>>

\* what the user answers to the chooser
Responses ==
    {[resp |-> r, path |-> "", outcome |-> "ok"] : r \in {"CANCEL", "DELETE_EVENT"}}

OkResponses(cfg) ==
    {[resp |-> "OK", path |-> p, outcome |-> o] : p \in Paths, o \in WriteOutcomes(cfg)}

\* dialog.run() returns in the innermost handle_open_bg_picker
DialogResponse ==
    /\ last = InLoop
    /\ dialogs > 0
    /\ \E a \in Responses \cup OkResponses(config) :
         /\ config' = PickerConfig(config, a.resp, a.path, a.outcome)
         /\ fx' = PickerEffects(webview, a.resp, a.path, a.outcome)
         /\ last' = [op |-> "response", arg |-> a.resp, escaped |-> FALSE]
         /\ saved' = IF a.resp = "OK" /\ a.outcome = "ok" THEN a.path ELSE saved
    /\ dialogs' = dialogs - 1
    /\ UNCHANGED <<screen, connected, webview, scheduled, ran, idle>>

\* the lambdas of init_screen: lambda *_: GLib.idle_add(self.update_running_apps)
SignalEmitted(sig) ==
    /\ last = InLoop
    /\ sig \in connected
    /\ scheduled < MaxEvents
    /\ scheduled' = scheduled + 1
    /\ idle' = idle + 1
    /\ fx' = <<IdleAdd>>
    /\ last' = [op |-> "signal", arg |-> sig, escaped |-> FALSE]
    /\ UNCHANGED <<screen, connected, webview, config, dialogs, ran, saved>>

WindowOpened == SignalEmitted("window-opened")
WindowClosed == SignalEmitted("window-closed")
ActiveWindowChanged == SignalEmitted("active-window-changed")

\* GLib runs one idle source: update_running_apps
IdleDispatch ==
    /\ last = InLoop
    /\ idle > 0
    /\ \E ws \in (IF screen THEN Snapshots ELSE {<<>>}) :
         \E r \in update_running_apps(screen, webview, ws) :
           /\ fx' = r.fx
           /\ idle' = IF r.again THEN idle ELSE idle - 1
    /\ ran' = ran + 1
    /\ last' = [op |-> "idle", arg |-> "update_running_apps", escaped |-> FALSE]
    /\ UNCHANGED <<screen, connected, webview, config, dialogs, scheduled, saved>>

\* the callback is over (or is inside dialog.run()): a main loop polls again
LoopIteration ==
    /\ last # InLoop
    /\ fx' = <<>>
    /\ last' = InLoop
    /\ UNCHANGED <<screen, connected, webview, config, dialogs, scheduled, ran,
                   idle, saved>>

Next ==
    \/ OnJsMessage
    \/ DialogResponse
    \/ WindowOpened
    \/ WindowClosed
    \/ ActiveWindowChanged
    \/ IdleDispatch
    \/ LoopIteration

Spec == Init /\ [][Next]_vars

\* Every callback returns, and the loop gets idle again and again: GLib
\* runs an idle source when nothing of higher priority is ready, in the
\* nested loop of dialog.run() too.
FairSpec == Spec /\ WF_vars(LoopIteration) /\ SF_vars(IdleDispatch)

(***************************************************************************)
(* Reading the calls of the callback that runs.                            *)
(***************************************************************************)
\* the places in fx of the calls of one kind
CallsOf(kind) == {i \in DOMAIN fx : fx[i].e = kind}
\* the places in fx where callback cb is injected
Injections(cb) == {i \in CallsOf("run_javascript") : fx[i].cb = cb}
\* the processes the callback spawned
Spawned == {i \in CallsOf("Popen") : fx[i].ok}
\* the log lines of one level
Logged(level) == {i \in CallsOf("log") : fx[i].level = level}
\* the bridge message being handled selects handler name
Handling(name) == last.op = "message" /\ Selected(last.arg) = name
\* the bridge message being handled, decoded
Message == Decode(last.arg)

(***************************************************************************)
(* C1.  A bridge message whose action is none of the seven registered      *)
(* names (a missing action included) spawns no process, writes no file,    *)
(* activates no window, opens no chooser and injects no script.            *)
(***************************************************************************)
Unregistered(payload) ==
    LET m == Decode(payload) IN
    ~m.ok \/ ~(\E n \in HandlerNames : m.action = PyStr(n))

C1_UnregisteredActionDoesNothing ==
    [][(last'.op = "message" /\ Unregistered(last'.arg)) =>
          /\ \A i \in DOMAIN fx' : fx'[i].e = "log"
          /\ config' = config
          /\ dialogs' = dialogs
          /\ idle' = idle]_vars

\* such a message was handled: its action differs from a registered name
\* by case only, and it carries a command launch_app would run
C1_Witness ==
    /\ last.op = "message"
    /\ Message.ok
    /\ Message.action = PyStr("Launch_App")
    /\ Message.command = PyStr("xterm")
    /\ fx = <<>>

(***************************************************************************)
(* C2.  No failure leaves on_js_message: whatever the payload and whatever *)
(* the selected handler raises, the call returns, and the loop can         *)
(* dispatch the next bridge message.                                       *)
(***************************************************************************)
C2_NoFailureEscapes ==
    /\ last.op = "message" => ~last.escaped
    /\ (last = InLoop /\ webview) => ENABLED OnJsMessage

\* a handler raised (handle_power_command, on a command that cannot be
\* hashed) and on_js_message logged it
C2_Witness ==
    /\ Handling("power_command")
    /\ Message.command = PyList(<<>>)
    /\ fx = <<Log("debug", "Bridge message error")>>
    /\ ~last.escaped

(***************************************************************************)
(* C3.  handle_power_command(cmd).                                         *)
(***************************************************************************)
\* cmd is one of shutdown, restart, sleep
Mapped(cmd) == cmd.t = "str" /\ cmd.v \in DOMAIN PowerCommands

\* C3 as claimed: an unmapped cmd does nothing; a mapped one with no
\* systemctl spawns nothing and logs a warning; a mapped one with systemctl
\* spawns exactly one process, running the two tokens mapped to cmd
C3_AsClaimed ==
    Handling("power_command") =>
        IF ~Mapped(Message.command)
        THEN CallsOf("Popen") = {} /\ Logged("warning") = {}
        ELSE IF Which(FALSE) \in {fx[i] : i \in DOMAIN fx}
        THEN CallsOf("Popen") = {} /\ Logged("warning") # {}
        ELSE /\ Cardinality(Spawned) = 1
             /\ \A i \in Spawned :
                  fx[i].argv = PowerCommands[Message.command.v] /\ ~fx[i].shell

\* C3 as amended: with systemctl resolvable, Popen is called exactly once,
\* with the two tokens mapped to cmd and no shell; the call spawns one
\* process, unless Popen raises: then there is no process and a warning
C3_PowerCommand ==
    Handling("power_command") =>
        IF ~Mapped(Message.command)
        THEN CallsOf("Popen") = {} /\ Logged("warning") = {}
        ELSE IF Which(FALSE) \in {fx[i] : i \in DOMAIN fx}
        THEN CallsOf("Popen") = {} /\ Logged("warning") # {}
        ELSE /\ Which(TRUE) \in {fx[i] : i \in DOMAIN fx}
             /\ Cardinality(CallsOf("Popen")) = 1
             /\ \A i \in CallsOf("Popen") :
                  /\ fx[i].argv = PowerCommands[Message.command.v]
                  /\ ~fx[i].shell
                  /\ fx[i].ok <=> Logged("warning") = {}

\* restart was asked for, systemctl resolves, and systemctl reboot runs
C3_Witness ==
    /\ Handling("power_command")
    /\ Message.command = PyStr("restart")
    /\ fx = <<Which(TRUE), Popen(<<"systemctl", "reboot">>, FALSE, TRUE)>>

(***************************************************************************)
(* C4.  Every get_saved_background request injects receiveSavedBackground  *)
(* exactly once: with "file://" and the stored path where config.json      *)
(* exists, parses and has the key wallpaper, with null otherwise; the      *)
(* argument is null or a string that starts with file://.                  *)
(***************************************************************************)
\* config.json parses to an object that has the key wallpaper
HasWallpaper(cfg) ==
    /\ cfg.exists /\ cfg.readable
    /\ JsonLoads(cfg.text).ok
    /\ JsonLoads(cfg.text).v.t = "dict"
    /\ \E i \in DOMAIN JsonLoads(cfg.text).v.v :
         JsonLoads(cfg.text).v.v[i][1] = "wallpaper"

StoredWallpaper(cfg) == DictGet(JsonLoads(cfg.text).v, "wallpaper")

C4_AsClaimed ==
    Handling("get_saved_background") =>
        /\ Cardinality(Injections("receiveSavedBackground")) = 1
        /\ \A i \in Injections("receiveSavedBackground") :
             /\ fx[i].arg =
                  IF HasWallpaper(config)
                  THEN JsonDumps(PyStr("file://" \o Format(StoredWallpaper(config))))
                  ELSE "null"
             /\ fx[i].arg = "null" \/ StartsWith(fx[i].arg, "\"file://")

(***************************************************************************)
(* C5.  The response of the chooser.  Cancelled: config.json is as before  *)
(* and no applyBackground is injected.  Confirmed with path p: first       *)
(* config.json is written with {"wallpaper": p}, and only then, and only   *)
(* if the write succeeded, applyBackground('file://' + p) is injected.     *)
(***************************************************************************)
C5_ResponseOf(f, cfg, cfgAfter) ==
    IF last'.arg # "OK"
    THEN /\ cfgAfter = cfg
         /\ \A i \in DOMAIN f : f[i].e \notin {"write_text", "run_javascript"}
    ELSE \E p \in Paths :
           LET text == JsonDumps(WallpaperConfig(PyStr(p))) IN
           /\ f[1].e = "write_text"
           /\ f[1].text = text
           /\ {i \in DOMAIN f : f[i].e = "write_text"} = {1}
           /\ IF f[1].outcome = "ok"
              THEN /\ cfgAfter = TextFile(text)
                   /\ f[2] = RunJavascript("applyBackground", "'file://" \o p \o "'")
                   /\ {i \in DOMAIN f : f[i].e = "run_javascript"} = {2}
              ELSE \A i \in DOMAIN f : f[i].e # "run_javascript"

C5_PickerWritesThenApplies ==
    [][last'.op = "response" => C5_ResponseOf(fx', config, config')]_vars

\* a chooser was confirmed with /a.png over an older file, the write
\* succeeded and applyBackground followed it
C5_Witness ==
    /\ last.op = "response"
    /\ last.arg = "OK"
    /\ Len(fx) >= 2
    /\ fx[1].e = "write_text"
    /\ fx[1].outcome = "ok"
    /\ fx[2] = RunJavascript("applyBackground", "'file:///a.png'")
    /\ config = TextFile("{\"wallpaper\": \"/a.png\"}")

(***************************************************************************)
(* C6.  handle_focus_app(token), tracking, token a non-empty string: the   *)
(* first window in enumeration order whose class name contains the token,  *)
(* case ignored, is activated, and no window after it is examined; with no *)
(* such window nothing is activated and nothing is raised.                 *)
(***************************************************************************)
C6_Matches(token, ws) ==
    {i \in 1..Len(ws) :
        Contains(Lower(token), Lower(IF ws[i].cls.t = "str" THEN ws[i].cls.v ELSE ""))}

C7_DisabledTrackerIsInert ==
    [][~screen =>
          /\ ~screen'
          /\ \A i \in DOMAIN fx' :
               /\ fx'[i].e \notin {"activate", "get_windows", "get_class_group_name"}
               /\ ~(fx'[i].e = "run_javascript" /\ fx'[i].cb = "updateRunningIndicators")]_vars

\* disabled, and a focus_app request with a token was handled
C7_Witness ==
    /\ ~screen
    /\ Handling("focus_app")
    /\ Message.command = PyStr("FIRE")
    /\ fx = <<>>

(***************************************************************************)
(* C8.  Every get_dock_apps request injects receiveDockData exactly once:  *)
(* with the content of dock.json where the file exists and parses, with    *)
(* the empty list otherwise; no failure leaves the handler.                *)
(***************************************************************************)
C8_DockDataAlwaysSent ==
    Handling("get_dock_apps") =>
        /\ ~last.escaped
        /\ Len(fx) >= 1
        /\ fx[1].e = "read"
        /\ Cardinality(Injections("receiveDockData")) = 1
        /\ CallsOf("run_javascript") = Injections("receiveDockData")
        /\ \A i \in Injections("receiveDockData") :
             LET f == fx[1].file
                 d == JsonLoads(f.text)
             IN fx[i].arg = IF f.exists /\ f.readable /\ d.ok
                            THEN JsonDumps(d.v) ELSE "[]"

\* dock.json is cut off in its first entry and receiveDockData([]) is sent
C8_Witness ==
    /\ Handling("get_dock_apps")
    /\ Len(fx) = 3
    /\ fx[1] = ReadDock(TextFile("[{\"name\": "))
    /\ fx[3] = RunJavascript("receiveDockData", "[]")

(***************************************************************************)
(* C10.  Read after write on config.json: a get_saved_background request   *)
(* reports "file://" and the path of the latest confirmed chooser whose    *)
(* write succeeded, null where there was none and no file.                 *)
(***************************************************************************)
C10_AsClaimed ==
    Handling("get_saved_background") =>
        /\ Injections("receiveSavedBackground") # {}
        /\ \A i \in Injections("receiveSavedBackground") :
             /\ saved # "" => fx[i].arg = JsonDumps(PyStr("file://" \o saved))
             /\ (saved = "" /\ ~config.exists) => fx[i].arg = "null"

(***************************************************************************)
(* C9.  Tracking: a window-opened, window-closed or active-window-changed  *)
(* event does nothing but GLib.idle_add(update_running_apps): it neither   *)
(* enumerates the windows nor injects a script.  Every scheduled           *)
(* update_running_apps runs in a later loop iteration, once (it removes    *)
(* its idle source), and there it enumerates the windows and, where there  *)
(* is a web view, injects updateRunningIndicators with the lower-cased     *)
(* class names of the NORMAL windows of that moment, each name once.       *)
(***************************************************************************)
\* the names update_running_apps is to report for the window list ws
C9_Names(ws) ==
    {Lower(IF ws[i].cls.t = "str" THEN ws[i].cls.v ELSE "") :
        i \in {j \in 1..Len(ws) : ws[j].type = "NORMAL"}}

\* f: the calls of one update_running_apps; pushes: whether it injects
C9_Recompute(f, pushes) ==
    /\ Len(f) >= 1
    /\ f[1].e = "get_windows"
    /\ IF pushes
       THEN /\ Len(f) = 2
            /\ f[2].e = "run_javascript"
            /\ f[2].cb = "updateRunningIndicators"
            /\ \E o \in Orders(C9_Names(f[1].ws)) :
                 f[2].arg = JsonDumps(PyList([i \in DOMAIN o |-> PyStr(o[i])]))
       ELSE Len(f) = 1

C9_Step(pushes) ==
    /\ last'.op = "signal" =>
         /\ fx' = <<IdleAdd>>
         /\ scheduled' = scheduled + 1
         /\ idle' = idle + 1
         /\ ran' = ran
    /\ (last'.op = "idle" /\ screen) =>
         /\ last.op = "loop"
         /\ ran' = ran + 1
         /\ idle' = idle - 1
         /\ scheduled' = scheduled
         /\ C9_Recompute(fx', pushes)
    /\ last'.op \notin {"signal", "idle"} =>
         /\ ran' = ran /\ idle' = idle /\ scheduled' = scheduled
         /\ \A i \in DOMAIN fx' :
              ~(fx'[i].e = "run_javascript" /\ fx'[i].cb = "updateRunningIndicators")

\* every scheduled recompute runs, none runs twice
C9_RunsOnce ==
    /\ [](idle = scheduled - ran /\ ran <= scheduled)
    /\ \A k \in 1..MaxEvents : (scheduled >= k) ~> (ran >= k)

====
